---- MODULE Spec2Model ----
(***************************************************************************)
(* Model of static/js/main.js of LivestockHub: the debounce utility and    *)
(* the host timer table it drives (setTimeout / clearTimeout), the         *)
(* order-status change handler and the cart quantity change handler.       *)
(*                                                                         *)
(* Host assumptions (HTML timers): setTimeout returns a handle that was    *)
(* never returned before (browsers number timers with a counter);          *)
(* clearTimeout of a handle that is not active, or of undefined, does      *)
(* nothing; a timer never fires before its deadline.  Spec lets a timer    *)
(* fire arbitrarily late; SpecPunctual makes the host run every due timer  *)
(* before the clock moves on.                                              *)
(***************************************************************************)
EXTENDS Integers, Sequences, FiniteSets

\* ---------------------------------------------------------------- bounds
MaxTime == 4
MaxWait == 2
MaxTrig == 3
QtySlack == 3

\* ------------------------------------------------------------- constants
MinQuantity == 1
MaxQuantity == 100

Invokers == {1, 2}
\* values a caller can pass as func: a function, or something not callable
Values == {"function", "null"}
\* what the page itself passes at line 101: a function expression
Functions == {"function"}
NoInvoker == "none"
Undefined == 0

Statuses == {"pending", "processing", "cancelled", "delivered"}
StatusSelects == {"s1", "s2"}
QuantityInputs == {"q1", "q2"}
NoEvent == [status |-> "none", asked |-> FALSE, answer |-> FALSE]

VARIABLES now, func, wait, timeout, timers, nextHandle, trigs, calls, errors,
          statusSelect, statusEvent, quantityInput, entered

debounceVars == <<func, wait, timeout, timers, nextHandle, trigs, calls, errors>>
orderVars == <<statusSelect, statusEvent>>
cartVars == <<quantityInput, entered>>
vars == <<now, func, wait, timeout, timers, nextHandle, trigs, calls, errors,
          statusSelect, statusEvent, quantityInput, entered>>

\* ----------------------------------------------------------- host timers
IsCallable(f) == f = "function"

\* the part of the state one trigger or one timer callback reads and writes
Host == [timers |-> timers, timeout |-> timeout, nextHandle |-> nextHandle,
         calls |-> calls, errors |-> errors]

clearTimeout(tms, h) == {tm \in tms : tm.handle # h}

setTimeout(S, i, a, delay) ==
    [S EXCEPT !.timers = @ \cup {[handle |-> S.nextHandle, owner |-> i,
                                  deadline |-> now + delay, args |-> a]},
              !.timeout[i] = S.nextHandle,
              !.nextHandle = @ + 1]

LiveTimers(i) == {tm \in timers : tm.owner = i}

\* func(...args) at line 126: a call when func is callable, a TypeError
\* thrown inside the timer callback otherwise
invoke(S, i, a) ==
    IF IsCallable(func[i])
    THEN [S EXCEPT !.calls[i] = Append(@, [t |-> now, args |-> a,
                                           ntrig |-> Len(trigs[i])])]
    ELSE [S EXCEPT !.errors[i] = @ + 1]

\* ------------------------------------------------------------- debounce
executedFunction_NoClear(S, i, a) == setTimeout(S, i, a, wait[i])

executedFunction_Global(S, i, a) ==
    LET latest == {tm \in S.timers :
                     \A o \in S.timers : o.handle <= tm.handle}
        c == [S EXCEPT !.timers = @ \ latest]
    IN  setTimeout(c, i, a, wait[i])

executedFunction_SyncZero(S, i, a) ==
    LET c == [S EXCEPT !.timers = clearTimeout(@, S.timeout[i])]
    IN  IF wait[i] = 0 THEN invoke(c, i, a) ELSE setTimeout(c, i, a, wait[i])

executedFunction_NoWait(S, i, a) ==
    LET c == [S EXCEPT !.timers = clearTimeout(@, S.timeout[i])]
    IN  setTimeout(c, i, a, 0)

executedFunction_Guarded(S, i, a) ==
    IF S.timeout[i] = Undefined THEN setTimeout(S, i, a, wait[i]) ELSE S

executedFunction(S, i, a) ==
    LET c == [S EXCEPT !.timers = clearTimeout(@, S.timeout[i])]
    IN  setTimeout(c, i, a, wait[i])

\* the timer callback; the host has already taken tm out of its table
later_Once(S, tm) ==
    LET c == [S EXCEPT !.timers = clearTimeout(@, S.timeout[tm.owner])]
    IN  IF S.calls[tm.owner] = <<>> THEN invoke(c, tm.owner, tm.args) ELSE c

later(S, tm) ==
    LET c == [S EXCEPT !.timers = clearTimeout(@, S.timeout[tm.owner])]
    IN  invoke(c, tm.owner, tm.args)

SetHost(S) ==
    /\ timers' = S.timers
    /\ timeout' = S.timeout
    /\ nextHandle' = S.nextHandle
    /\ calls' = S.calls
    /\ errors' = S.errors

NumTrigs == Len(trigs[1]) + Len(trigs[2])

\* every input event is a new object: the arguments of a trigger are
\* modelled by the number of the event
NextEvent == NumTrigs + 1

Constructed == \A i \in Invokers : func[i] # NoInvoker

\* debounce(func, wait): returns the invoker, whatever func is.  The
\* invokers are made one after the other by the forEach of the
\* DOMContentLoaded handler, before any event is delivered.
debounce(i, f, w) ==
    /\ func[i] = NoInvoker
    /\ \A j \in Invokers : j < i => func[j] # NoInvoker
    /\ func' = [func EXCEPT ![i] = f]
    /\ wait' = [wait EXCEPT ![i] = w]
    /\ UNCHANGED <<now, timeout, timers, nextHandle, trigs, calls, errors,
                   orderVars, cartVars>>

\* one call of the invoker (an input event on its search field)
Trigger(i, a) ==
    /\ Constructed
    /\ NumTrigs < MaxTrig
    /\ SetHost(executedFunction(Host, i, a))
    /\ trigs' = [trigs EXCEPT ![i] = Append(@, [t |-> now, args |-> a])]
    /\ UNCHANGED <<now, func, wait, orderVars, cartVars>>

\* the host runs a due timer
Fire(tm) ==
    /\ tm \in timers
    /\ tm.deadline <= now
    /\ SetHost(later([Host EXCEPT !.timers = @ \ {tm}], tm))
    /\ UNCHANGED <<now, func, wait, trigs, orderVars, cartVars>>

Tick ==
    /\ Constructed
    /\ now < MaxTime
    /\ now' = now + 1
    /\ UNCHANGED <<debounceVars, orderVars, cartVars>>

TickPunctual ==
    /\ \A tm \in timers : tm.deadline > now
    /\ Tick

InitDebounce ==
    /\ now = 0
    /\ func = [i \in Invokers |-> NoInvoker]
    /\ wait = [i \in Invokers |-> 0]
    /\ timeout = [i \in Invokers |-> Undefined]
    /\ timers = {}
    /\ nextHandle = 1
    /\ trigs = [i \in Invokers |-> <<>>]
    /\ calls = [i \in Invokers |-> <<>>]
    /\ errors = [i \in Invokers |-> 0]

\* ------------------------------------------- the same input to two invokers
\* Invoker 1 has been used and has fired; invoker 2 is as debounce returned
\* it.  From then on both get every trigger, and the host runs their
\* timers together.
TwinPhase == trigs[2] # <<>>

PreTrigger == ~TwinPhase /\ Trigger(1, NextEvent)

PreFire(tm) == ~TwinPhase /\ Fire(tm)

TriggerBoth ==
    /\ Constructed
    /\ wait[1] = wait[2]
    /\ func[1] = func[2]
    /\ Len(trigs[1]) < MaxTrig
    /\ ~TwinPhase => calls[1] # <<>> /\ LiveTimers(1) = {}
    /\ LET a == Len(trigs[1]) + 1
       IN  /\ SetHost(executedFunction(executedFunction(Host, 1, a), 2, a))
           /\ trigs' = [i \in Invokers |->
                           Append(trigs[i], [t |-> now, args |-> a])]
    /\ UNCHANGED <<now, func, wait, orderVars, cartVars>>

FireBoth(t1, t2) ==
    /\ TwinPhase
    /\ t1 \in LiveTimers(1) /\ t2 \in LiveTimers(2)
    /\ t1.deadline <= now /\ t2.deadline <= now
    /\ LET S1 == later([Host EXCEPT !.timers = @ \ {t1}], t1)
       IN  SetHost(later([S1 EXCEPT !.timers = @ \ {t2}], t2))
    /\ UNCHANGED <<now, func, wait, trigs, orderVars, cartVars>>

\* ------------------------------------------------ order status selects
\* this.form.reset(): the select shows its default option again
formReset(sel) == [sel EXCEPT !.value = sel.defaultValue]

showLoading(sel) ==
    [sel EXCEPT !.disabled = TRUE, !.updating = @ \cup {sel.value}]

\* the change listener of a .status-select; answer is what confirm() returns
statusListener_NoReturn(sel, answer) ==
    IF sel.value \in {"cancelled", "delivered"} /\ ~answer
    THEN showLoading(formReset(sel))
    ELSE showLoading(sel)

statusListener(sel, answer) ==
    IF sel.value = "cancelled" /\ ~answer
    THEN formReset(sel)
    ELSE IF sel.value = "delivered" /\ ~answer
         THEN formReset(sel)
         ELSE showLoading(sel)

\* the user picks another option of an enabled select
statusChange(s, newStatus, answer) ==
    /\ ~statusSelect[s].disabled
    /\ newStatus # statusSelect[s].value
    /\ LET asked == newStatus \in {"cancelled", "delivered"}
       IN  /\ asked \/ answer
           /\ statusSelect' = [statusSelect EXCEPT ![s] =
                  statusListener([@ EXCEPT !.value = newStatus], answer)]
           /\ statusEvent' = [statusEvent EXCEPT ![s] =
                  [status |-> newStatus, asked |-> asked, answer |-> answer]]
    /\ UNCHANGED <<now, debounceVars, cartVars>>

\* ----------------------------------------------------- quantity inputs
\* The field's text is a decimal integer; comparing it with a number
\* converts it to that integer, and assigning a number stores its decimal
\* text, so the field is modelled by the integer it shows.
quantityListener_NoUpper(v) ==
    IF v < MinQuantity THEN MinQuantity ELSE v

quantityListener(v) ==
    LET v1 == IF v < MinQuantity THEN MinQuantity ELSE v
    IN  IF v1 > MaxQuantity THEN MaxQuantity ELSE v1

Quantities == (MinQuantity - QtySlack)..(MaxQuantity + QtySlack)

quantityChange(k, v) ==
    /\ v # quantityInput[k]
    /\ quantityInput' = [quantityInput EXCEPT ![k] = quantityListener(v)]
    /\ entered' = [entered EXCEPT ![k] = v]
    /\ UNCHANGED <<now, debounceVars, orderVars>>

\* ------------------------------------------------------ specifications
SelectWith(v) == [value |-> v, defaultValue |-> v, disabled |-> FALSE,
                  updating |-> {}]

OrdersLoaded ==
    /\ statusSelect = [s \in StatusSelects |-> SelectWith("pending")]
    /\ statusEvent = [s \in StatusSelects |-> NoEvent]

CartLoaded ==
    /\ quantityInput = [k \in QuantityInputs |-> MinQuantity]
    /\ entered = [k \in QuantityInputs |-> MinQuantity]

Init == InitDebounce /\ OrdersLoaded /\ CartLoaded

DebounceStep ==
    \/ \E i \in Invokers, f \in Functions, w \in 0..MaxWait : debounce(i, f, w)
    \/ \E i \in Invokers : Trigger(i, NextEvent)
    \/ \E tm \in timers : Fire(tm)

Next == DebounceStep \/ Tick

Spec == Init /\ [][Next]_vars

NextPunctual == DebounceStep \/ TickPunctual

SpecPunctual == Init /\ [][NextPunctual]_vars

\* debounce called with any value as func
NextAnyFunc ==
    \/ \E i \in Invokers, f \in Values, w \in 0..MaxWait : debounce(i, f, w)
    \/ \E i \in Invokers : Trigger(i, NextEvent)
    \/ \E tm \in timers : Fire(tm)
    \/ TickPunctual

SpecAnyFunc == Init /\ [][NextAnyFunc]_vars

NextTwin ==
    \/ \E i \in Invokers, f \in Functions, w \in 0..MaxWait : debounce(i, f, w)
    \/ PreTrigger
    \/ \E tm \in timers : PreFire(tm)
    \/ TriggerBoth
    \/ \E t1, t2 \in timers : FireBoth(t1, t2)
    \/ Tick

SpecTwin == Init /\ [][NextTwin]_vars

InitOrders ==
    /\ InitDebounce
    /\ CartLoaded
    /\ statusSelect \in [StatusSelects -> {SelectWith(v) : v \in Statuses}]
    /\ statusEvent = [s \in StatusSelects |-> NoEvent]

NextOrders ==
    \E s \in StatusSelects, v \in Statuses, answer \in BOOLEAN :
        statusChange(s, v, answer)

SpecOrders == InitOrders /\ [][NextOrders]_vars

NextCart == \E k \in QuantityInputs, v \in Quantities : quantityChange(k, v)

SpecCart == Init /\ [][NextCart]_vars

\* ------------------------------------------------------------ properties
Last(q) == q[Len(q)]
ArgsOf(q) == [k \in DOMAIN q |-> q[k].args]
Gap(i, k) == trigs[i][k + 1].t - trigs[i][k].t
AllClose(i) == \A k \in 1..(Len(trigs[i]) - 1) : Gap(i, k) < wait[i]
AllSpaced(i) == \A k \in 1..(Len(trigs[i]) - 1) : Gap(i, k) > wait[i]
TriggerStep(i) == Len(trigs'[i]) > Len(trigs[i])
MaxOf(x, y) == IF x > y THEN x ELSE y
MinOf(x, y) == IF x < y THEN x ELSE y

\* C1: a burst of N >= 1 triggers, each less than wait after the one before,
\* gives no invocation while its timer is pending and exactly one once the
\* timer has fired, with the arguments of the last trigger of the burst.
C1_Coalescing ==
    \A i \in Invokers :
        (Len(trigs[i]) >= 1 /\ AllClose(i)) =>
            /\ Len(calls[i]) <= 1
            /\ (LiveTimers(i) = {}) <=> (Len(calls[i]) = 1)
            /\ \A tm \in LiveTimers(i) : tm.args = Last(trigs[i]).args
            /\ calls[i] # <<>> => calls[i][1].args = Last(trigs[i]).args

C1_Witness ==
    \E i \in Invokers :
        /\ Len(trigs[i]) = 3 /\ AllClose(i)
        /\ trigs[i][1].t < trigs[i][2].t /\ trigs[i][2].t < trigs[i][3].t
        /\ Len(calls[i]) = 1

\* C2: an invoker never has more than one scheduled timer that has not
\* fired, and that timer is the one whose handle it holds in timeout.
C2_OnePendingTimer ==
    \A i \in Invokers :
        /\ Cardinality(LiveTimers(i)) <= 1
        /\ \A tm \in LiveTimers(i) : tm.handle = timeout[i]

C2_Witness ==
    \E i \in Invokers :
        /\ Len(trigs[i]) >= 2
        /\ calls[i] = <<>>
        /\ Cardinality(LiveTimers(i)) = 1

\* C3: every invocation of func happens at least wait after the most recent
\* trigger of its invoker that came before it.
C3_QuietPeriod ==
    \A i \in Invokers : \A k \in DOMAIN calls[i] :
        /\ calls[i][k].ntrig >= 1
        /\ calls[i][k].t >= trigs[i][calls[i][k].ntrig].t + wait[i]

C3_Witness ==
    \E i \in Invokers : \E k \in DOMAIN calls[i] :
        /\ wait[i] > 0
        /\ calls[i][k].ntrig = 2
        /\ trigs[i][2].t > trigs[i][1].t
        /\ trigs[i][2].t < trigs[i][1].t + wait[i]

C5_NeverSynchronous ==
    [][/\ \A i \in Invokers :
              TriggerStep(i) => calls' = calls /\ errors' = errors
       /\ calls' # calls =>
              /\ trigs' = trigs
              /\ \E tm \in timers : tm \notin timers' /\ tm.deadline <= now]_vars

C5_Witness ==
    \E i \in Invokers :
        /\ wait[i] = 0
        /\ Len(trigs[i]) = 1
        /\ calls[i] = <<>>
        /\ LiveTimers(i) # {}

\* C6: once its timer has fired and no trigger has followed, an invoker has
\* no pending timer; and an invoker that has fired, given the same triggers
\* and timer runs as an invoker fresh from debounce, has the same pending
\* timer and makes the same invocations at the same times.
TwinBase == Len(trigs[1]) - Len(trigs[2])
InTwinPhase(c) == c.ntrig > TwinBase
Rebased(q) == [k \in DOMAIN q |-> [q[k] EXCEPT !.ntrig = @ - TwinBase]]
Pending(i) == {[deadline |-> tm.deadline, args |-> tm.args] : tm \in LiveTimers(i)}

C6_LikeFresh ==
    /\ \A i \in Invokers :
           (calls[i] # <<>> /\ Last(calls[i]).ntrig = Len(trigs[i]))
               => LiveTimers(i) = {}
    /\ TwinPhase =>
           /\ Pending(1) = Pending(2)
           /\ Rebased(SelectSeq(calls[1], InTwinPhase)) = calls[2]

C6_Witness ==
    /\ TwinPhase
    /\ wait[1] > 0
    /\ LiveTimers(1) # {}
    /\ Len(calls[2]) = 1
    /\ Len(calls[1]) = 2
    /\ Len(trigs[2]) = 2

\* C7: no invoker exists for an action that is not callable, and no error
\* of such an action is raised from a timer callback.
C7_FailsAtConstruction ==
    \A i \in Invokers :
        /\ func[i] # NoInvoker => IsCallable(func[i])
        /\ errors[i] = 0

\* C8: after a change to 'cancelled' or 'delivered' that the user declined,
\* the form is reset, the select is enabled and no option reads
\* 'Updating...'; after any other change the select is disabled and its
\* selected option, and only it, reads 'Updating...'.
Declined(e) == e.asked /\ ~e.answer

C8_DeclineSkipsLoading ==
    \A s \in StatusSelects :
        LET e == statusEvent[s]
            sel == statusSelect[s]
        IN  /\ (e # NoEvent /\ Declined(e)) =>
                   /\ e.status \in {"cancelled", "delivered"}
                   /\ sel.value = sel.defaultValue
                   /\ ~sel.disabled
                   /\ sel.updating = {}
            /\ (e # NoEvent /\ ~Declined(e)) =>
                   /\ sel.disabled
                   /\ sel.value = e.status
                   /\ sel.updating = {e.status}
            /\ sel.disabled => (e # NoEvent /\ ~Declined(e))

C8_Witness ==
    /\ statusEvent["s1"] = [status |-> "cancelled", asked |-> TRUE, answer |-> FALSE]
    /\ statusEvent["s2"] = [status |-> "delivered", asked |-> TRUE, answer |-> TRUE]
    /\ ~statusSelect["s1"].disabled
    /\ statusSelect["s2"].disabled

\* C9: after the change listener has run on an entered integer v, the field
\* holds max(1, min(100, v)).
C9_QuantityClamped ==
    \A k \in QuantityInputs :
        quantityInput[k] = MaxOf(MinQuantity, MinOf(MaxQuantity, entered[k]))

C9_Witness ==
    /\ entered["q1"] < MinQuantity /\ quantityInput["q1"] = MinQuantity
    /\ entered["q2"] > MaxQuantity /\ quantityInput["q2"] = MaxQuantity

\* C10: a trigger of one invoker leaves the other invoker's pending timer,
\* timer handle and invocations as they were; and an invoker's pending timer
\* is always the one of its own last trigger.
C10_Isolation ==
    /\ [](\A i \in Invokers : \A tm \in LiveTimers(i) :
              /\ trigs[i] # <<>>
              /\ tm.args = Last(trigs[i]).args
              /\ tm.deadline = Last(trigs[i]).t + wait[i])
    /\ [][\A i, j \in Invokers :
              (i # j /\ TriggerStep(i)) =>
                  /\ LiveTimers(j)' = LiveTimers(j)
                  /\ timeout'[j] = timeout[j]
                  /\ calls'[j] = calls[j]]_vars

C10_Witness ==
    /\ LiveTimers(1) # {} /\ LiveTimers(2) # {}
    /\ timeout[1] > timeout[2]
    /\ Len(trigs[2]) >= 2
    /\ wait[1] # wait[2]
====
